---- MODULE Spec2Model ----
(***************************************************************************)
(* Peer discovery of localsend_rs (src/rust/src/discovery/handler.rs):     *)
(* the node registry with its change stream, the local identity, the two   *)
(* multicast sockets, the announce burst and the listen loop of serve.     *)
(*                                                                         *)
(* Every variable is a function of the node (one process running the       *)
(* program): the statics of handler.rs lines 15-22 exist once per process. *)
(* The tasks of a node are "serve" (the task running serve), "disc" (a     *)
(* caller of discover), "stop" (a caller of stop) and "api" (a caller of   *)
(* the registry functions).  A task's position is named function:line.     *)
(* Option<T> is the set {} (None) or {x} (Some(x)).                        *)
(***************************************************************************)
EXTENDS Integers, Sequences, FiniteSets, TLC

\* Bounds of the model.
MaxFp == 4
MaxAddr == 2
MaxOps == 3
MaxIds == 2
MaxKeys == 2
MaxDiscovers == 1

Fingerprints == 1..MaxFp
Addrs == 1..MaxAddr

\* model::Node, reduced to the fields handler.rs reads.
Node(f, a) == [fingerprint |-> f, address |-> a]
Nodes == {Node(f, a) : f \in Fingerprints, a \in Addrs}

Tasks == {"serve", "disc", "stop", "api"}
\* The tasks that call announce: serve (line 114) and discover (line 172).
Callers == {"serve", "disc"}

VARIABLES
    CURRENT_NODE,          \* Option<Node>
    MULTICAST_ADDR,        \* Option<SocketAddr>: {} or {"group"}
    ANNOUCE_SOCKET,        \* Option<UdpSocket>: {} or {"rec"}
    ANNOUCE_SEND_SOCKET,   \* Option<UdpSocket>: {} or {"send"}
    NODE_MAP,              \* HashMap<String, Node>: a function on the keys
    NODE_CHANNEL,          \* the watch channel: its value, and the receivers
                           \* (the stored .1, the subscriber's clone) that
                           \* have not seen the version of that value
    mapLock,               \* holder of the NODE_MAP mutex, or "none"
    sockLock,              \* holder of the ANNOUCE_SOCKET mutex, or "none"
    sendLock,              \* holder of the ANNOUCE_SEND_SOCKET mutex, or "none"
    nodeLock,              \* holder of the CURRENT_NODE mutex, or "none"
    pc,                    \* pc[n][t]: position of task t
    arg,                   \* the argument of the api task's current call
    fingerprint,           \* serve's local fingerprint (line 76), 0 before
    dgram,                 \* Option of what recv_from returned last: the bytes
                           \* received and the address they came from
    registered,            \* serve's local registered (line 109)
    ann,                   \* ann[n][t]: the locals of announce called by t, and
                           \* (history) id, the identity it read, and sent,
                           \* the datagrams it has put on the wire
    stopDone,              \* history: stop() returned while serve was listening
    disco,                 \* history: what the running discover() has cleared
    rx,                    \* Option of the subscriber's receiver: {} or {"sub"}
    opLog,                 \* history: the registry calls applied so far
    sends,                 \* history: how many snapshots were published
    items,                 \* history: what the subscriber has been yielded,
                           \* and how many snapshots preceded its attachment
    wire,                  \* wire[n]: the datagrams that reached the receive
                           \* socket of n from other processes of the model
                           \* and that recv_from has not returned yet
    calls                  \* history: how many times discover() was called

statics == <<CURRENT_NODE, MULTICAST_ADDR, ANNOUCE_SOCKET, ANNOUCE_SEND_SOCKET>>
registry == <<NODE_MAP, NODE_CHANNEL, mapLock>>
sockLocks == <<sockLock, sendLock>>
locals == <<fingerprint, dgram, registered, ann>>
notes == <<stopDone, disco>>
stream == <<rx, items>>
history == <<opLog, sends>>
\* What the protocol tasks (serve, disc, stop) never touch, and what the api
\* task and the subscriber never touch.
client == <<arg, stream, history>>
segment == <<wire, calls>>
protocol == <<statics, sockLocks, nodeLock, locals, notes, segment>>
vars ==
    <<statics, registry, sockLocks, nodeLock, pc, arg, locals, notes, stream,
      history, segment>>

(***************************************************************************)
(* HashMap and watch channel                                               *)
(***************************************************************************)
EmptyMap == [k \in {} |-> k]

insert_keep(m, nd) ==
    [k \in DOMAIN m \cup {nd.fingerprint} |->
        IF k \in DOMAIN m THEN m[k] ELSE nd]

insert(m, nd) ==
    [k \in DOMAIN m \cup {nd.fingerprint} |->
        IF k = nd.fingerprint THEN nd ELSE m[k]]

remove(m, f) == [k \in DOMAIN m \ {f} |-> m[k]]

clear(m) == EmptyMap

contains_key(m, f) == f \in DOMAIN m

get(m, f) == IF f \in DOMAIN m THEN {m[f]} ELSE {}

\* A watch receiver holds the version it saw last; the model keeps, instead of
\* the version numbers, which receivers hold an older version than the channel.
Receivers == {"stored", "sub"}

\* watch::channel(HashMap::new()): the receiver .1 has seen the first version.
channel == [value |-> EmptyMap, unseen |-> {}]

\* watch::Sender::send: stores the value and moves the version on, so every
\* receiver, the stored .1 included, has a version it has not seen.
send_silent(ch, m) == [value |-> m, unseen |-> ch.unseen]

send(ch, m) == [value |-> m, unseen |-> Receivers]

\* Receiver::clone of the stored .1: the clone has seen what .1 has seen, and
\* .1 never moves on (nothing in handler.rs reads through it).
clone(ch) ==
    [ch EXCEPT !.unseen =
        IF "stored" \in @ THEN @ \cup {"sub"} ELSE @ \ {"sub"}]

\* Receiver::changed, of the subscriber's clone: ready when a version is unseen.
has_changed(ch) == "sub" \in ch.unseen

\* Receiver::borrow_and_update, of the subscriber's clone.
borrow_and_update(ch) == [ch EXCEPT !.unseen = @ \ {"sub"}]

(***************************************************************************)
(* Steps shared by the tasks                                               *)
(***************************************************************************)
Goto(n, t, l) == pc' = [pc EXCEPT ![n][t] = l]

\* Where a registry function returns to in task t.
RegistryReturn(t) ==
    CASE t = "serve" -> "serve:114"
      [] t = "disc" -> "discover:172"
      [] OTHER -> "idle"

\* NODE_MAP.lock().await, first statement of add_node, clear_nodes, remove_node.
LockMap(n, t, at, to) ==
    /\ pc[n][t] = at
    /\ mapLock[n] = "none"
    /\ mapLock' = [mapLock EXCEPT ![n] = t]
    /\ Goto(n, t, to)
    /\ UNCHANGED <<NODE_MAP, NODE_CHANNEL>>

\* The statement changing the map, under the lock.
Mutate(n, t, at, to, m) ==
    /\ pc[n][t] = at
    /\ mapLock[n] = t
    /\ NODE_MAP' = [NODE_MAP EXCEPT ![n] = m]
    /\ Goto(n, t, to)
    /\ UNCHANGED <<NODE_CHANNEL, mapLock>>

\* NODE_CHANNEL.0.send(node_map.clone()), and the guard dropped on return.
Publish(n, t, at) ==
    /\ pc[n][t] = at
    /\ mapLock[n] = t
    /\ NODE_CHANNEL' = [NODE_CHANNEL EXCEPT ![n] = send(@, NODE_MAP[n])]
    /\ mapLock' = [mapLock EXCEPT ![n] = "none"]
    /\ Goto(n, t, RegistryReturn(t))
    /\ UNCHANGED NODE_MAP

add_node_lock(n, t) == LockMap(n, t, "add_node:29", "add_node:30")
add_node_insert(n, t, nd) ==
    Mutate(n, t, "add_node:30", "add_node:31", insert(NODE_MAP[n], nd))
add_node_send(n, t) == Publish(n, t, "add_node:31")

clear_nodes_lock(n, t) == LockMap(n, t, "clear_nodes:35", "clear_nodes:36")
clear_nodes_clear(n, t) ==
    Mutate(n, t, "clear_nodes:36", "clear_nodes:37", clear(NODE_MAP[n]))
clear_nodes_send(n, t) == Publish(n, t, "clear_nodes:37")

remove_node_lock(n, t) == LockMap(n, t, "remove_node:41", "remove_node:42")
remove_node_remove(n, t, f) ==
    Mutate(n, t, "remove_node:42", "remove_node:43", remove(NODE_MAP[n], f))
remove_node_send(n, t) == Publish(n, t, "remove_node:43")

\* get_node and get_nodes: the value returned once the lock is obtained.
get_node(n, f) == get(NODE_MAP[n], f)
get_nodes(n) == NODE_MAP[n]

(***************************************************************************)
(* The api task: a caller of add_node, remove_node and clear_nodes         *)
(***************************************************************************)
Running == DOMAIN pc

\* The fingerprints the api task's calls name.
Keys == 1..MaxKeys

Logged(n, op) == opLog' = [opLog EXCEPT ![n] = Append(@, op)]

ApiCall(n) ==
    /\ pc[n]["api"] = "idle"
    /\ Len(opLog[n]) < MaxOps
    /\ \/ \E nd \in {x \in Nodes : x.fingerprint \in Keys} :
            /\ arg' = [arg EXCEPT ![n] = nd]
            /\ Goto(n, "api", "add_node:29")
       \/ \E f \in Keys :
            /\ arg' = [arg EXCEPT ![n] = f]
            /\ Goto(n, "api", "remove_node:41")
       \/ /\ arg' = [arg EXCEPT ![n] = 0]
          /\ Goto(n, "api", "clear_nodes:35")
    /\ UNCHANGED <<protocol, registry, stream, history>>

ApiLock(n) ==
    /\ \/ add_node_lock(n, "api")
       \/ remove_node_lock(n, "api")
       \/ clear_nodes_lock(n, "api")
    /\ UNCHANGED <<protocol, arg, stream, history>>

ApiAdd(n) ==
    /\ add_node_insert(n, "api", arg[n])
    /\ Logged(n, [call |-> "add", node |-> arg[n]])
    /\ UNCHANGED <<protocol, arg, stream, sends>>

ApiRemove(n) ==
    /\ remove_node_remove(n, "api", arg[n])
    /\ Logged(n, [call |-> "remove", fingerprint |-> arg[n]])
    /\ UNCHANGED <<protocol, arg, stream, sends>>

ApiClear(n) ==
    /\ clear_nodes_clear(n, "api")
    /\ Logged(n, [call |-> "clear"])
    /\ UNCHANGED <<protocol, arg, stream, sends>>

ApiSend(n) ==
    /\ \/ add_node_send(n, "api")
       \/ remove_node_send(n, "api")
       \/ clear_nodes_send(n, "api")
    /\ sends' = [sends EXCEPT ![n] = @ + 1]
    /\ UNCHANGED <<protocol, arg, stream, opLog>>

(***************************************************************************)
(* A subscriber: get_node_listener, then the items its receiver yields     *)
(***************************************************************************)
regOnly == <<NODE_MAP, mapLock>>

Yield(n) ==
    items' = [items EXCEPT ![n].got =
                Append(@, [idx |-> sends[n], value |-> NODE_CHANNEL[n].value])]

\* get_node_listener(): NODE_CHANNEL.1.clone()
get_node_listener(n) ==
    /\ rx[n] = {}
    /\ rx' = [rx EXCEPT ![n] = {"sub"}]
    /\ NODE_CHANNEL' = [NODE_CHANNEL EXCEPT ![n] = clone(@)]
    /\ items' = [items EXCEPT ![n] = [at |-> sends[n], got |-> <<>>]]
    /\ UNCHANGED <<protocol, regOnly, pc, arg, history>>

\* The first item of the stream: the latest snapshot, at once.
RecvFirst(n) ==
    /\ rx[n] # {}
    /\ items[n].got = <<>>
    /\ NODE_CHANNEL' = [NODE_CHANNEL EXCEPT ![n] = borrow_and_update(@)]
    /\ Yield(n)
    /\ UNCHANGED <<protocol, regOnly, pc, arg, rx, history>>

\* A later item: changed().await returns once there is an unseen version.
RecvNext(n) ==
    /\ rx[n] # {}
    /\ items[n].got # <<>>
    /\ has_changed(NODE_CHANNEL[n])
    /\ NODE_CHANNEL' = [NODE_CHANNEL EXCEPT ![n] = borrow_and_update(@)]
    /\ Yield(n)
    /\ UNCHANGED <<protocol, regOnly, pc, arg, rx, history>>

(***************************************************************************)
(* Wire format: model::Node and model::NodeAnnounce, serde_json            *)
(***************************************************************************)
\* Node::to_announce: the record's wire projection, which carries no address.
to_announce(nd) == [fingerprint |-> nd.fingerprint]

\* Node::from_announce(&node_announce, &addr.ip().to_string())
from_announce(a, ip) == Node(a.fingerprint, ip)

\* serde_json::to_string: the bytes of a message.
to_string(a) == <<"fingerprint", a.fingerprint>>

\* serde_json::from_str, a Result kept as an Option: {} is Err.
from_str(w) ==
    IF Len(w) = 2 /\ w[1] = "fingerprint"
    THEN {[fingerprint |-> w[2]]}
    ELSE {}

\* The hosts of the segment: the host of fingerprint f has one address.
AddrOf(f) == ((f - 1) % MaxAddr) + 1
Peers == {Node(f, AddrOf(f)) : f \in Fingerprints}

\* The identities set_current_node is called with: the node's own host, under
\* one of MaxIds fingerprints.
Identities == {p \in Peers : p.fingerprint <= MaxIds}

\* What reaches the receive socket: the announce of a host (the node's own
\* come back to it), or bytes that are no message.
Malformed == <<"fingerprint">>
Datagrams ==
    {[bytes |-> to_string(to_announce(p)), addr |-> p.address] : p \in Peers}
        \cup {[bytes |-> Malformed, addr |-> a] : a \in Addrs}

(***************************************************************************)
(* Locals of announce and the histories                                    *)
(***************************************************************************)
NoBurst ==
    [repeat |-> 0, i |-> 0, msg |-> <<>>, target |-> {}, id |-> {},
     sent |-> <<>>]

NoDiscover == [cleared |-> FALSE, emptied |-> FALSE]

\* The repeat each caller passes to announce: announce(1), announce(5).
LoopRepeat == 1
DiscoverRepeat == 5
\* announce(5) at line 114 too.
RepeatOfDiscover(t) == DiscoverRepeat

RepeatOf(t) == IF t = "serve" THEN LoopRepeat ELSE DiscoverRepeat

Panics ==
    {"panic:68", "panic:91", "panic:103", "panic:127", "panic:131",
     "panic:179", "panic:184", "panic:197", "panic:200"}

\* A task that is not running: never started, returned, or panicked.
Ended == {"idle", "returned"} \cup Panics

\* serve is in its receive loop (lines 86-121, and what the loop calls).
Listening(n) == pc[n]["serve"] \notin Ended \cup {"serve:61", "init_socket:125", "serve:67"}

\* Variant: the record takes the receiving host's address.
NodeOf_local(n) ==
    LET d == CHOOSE x \in dgram[n] : TRUE
        a == CHOOSE x \in from_str(d.bytes) : TRUE
    IN  from_announce(a, AddrOf(n))

\* serve's local node (line 104), defined once a message was decoded.
NodeOf(n) ==
    LET d == CHOOSE x \in dgram[n] : TRUE
        a == CHOOSE x \in from_str(d.bytes) : TRUE
    IN  from_announce(a, d.addr)

(***************************************************************************)
(* set_current_node and stop                                               *)
(***************************************************************************)
set_current_node(n, nd) ==
    /\ nodeLock[n] = "none"
    /\ CURRENT_NODE' = [CURRENT_NODE EXCEPT ![n] = {nd}]
    /\ UNCHANGED <<MULTICAST_ADDR, ANNOUCE_SOCKET, ANNOUCE_SEND_SOCKET>>
    /\ UNCHANGED <<registry, sockLocks, pc, locals, notes, client, nodeLock, segment>>

StopCall(n) ==
    /\ pc[n]["stop"] = "idle"
    /\ Goto(n, "stop", "stop:25")
    /\ UNCHANGED <<protocol, registry, client, nodeLock, segment>>

\* ANNOUCE_SOCKET.lock().await.take(): needs the lock; the socket is dropped.
stop_take(n) ==
    /\ pc[n]["stop"] = "stop:25"
    /\ sockLock[n] = "none"
    /\ ANNOUCE_SOCKET' = [ANNOUCE_SOCKET EXCEPT ![n] = {}]
    /\ Goto(n, "stop", "idle")
    /\ stopDone' = [stopDone EXCEPT ![n] = @ \/ Listening(n)]
    /\ UNCHANGED <<CURRENT_NODE, MULTICAST_ADDR, ANNOUCE_SEND_SOCKET, disco>>
    /\ UNCHANGED <<registry, sockLocks, locals, client, nodeLock, segment>>

(***************************************************************************)
(* serve: start-up                                                         *)
(***************************************************************************)
ServeCall(n) ==
    /\ pc[n]["serve"] \in Ended
    /\ Goto(n, "serve", "serve:61")
    /\ fingerprint' = [fingerprint EXCEPT ![n] = 0]
    /\ dgram' = [dgram EXCEPT ![n] = {}]
    /\ registered' = [registered EXCEPT ![n] = FALSE]
    /\ ann' = [ann EXCEPT ![n]["serve"] = NoBurst]
    /\ stopDone' = [stopDone EXCEPT ![n] = FALSE]
    /\ UNCHANGED <<statics, registry, sockLocks, disco, client, nodeLock, segment>>

\* NODE_MAP.lock().await.clear(): the map is emptied and nothing is sent on
\* NODE_CHANNEL; the guard is dropped at the end of the statement.
serve_clear(n) ==
    /\ pc[n]["serve"] = "serve:61"
    /\ mapLock[n] = "none"
    /\ NODE_MAP' = [NODE_MAP EXCEPT ![n] = clear(@)]
    /\ Goto(n, "serve", "init_socket:125")
    /\ UNCHANGED <<NODE_CHANNEL, mapLock, protocol, client, nodeLock, segment>>

\* init_socket: UdpSocket::bind fails on a port a live socket of this process
\* is bound to, and expect() panics; a panic drops the local rec_socket.
init_socket(n) ==
    /\ pc[n]["serve"] = "init_socket:125"
    /\ IF ANNOUCE_SOCKET[n] # {}
       THEN /\ Goto(n, "serve", "panic:127")
            /\ UNCHANGED <<ANNOUCE_SOCKET, ANNOUCE_SEND_SOCKET>>
       ELSE IF ANNOUCE_SEND_SOCKET[n] # {}
       THEN /\ Goto(n, "serve", "panic:131")
            /\ UNCHANGED <<ANNOUCE_SOCKET, ANNOUCE_SEND_SOCKET>>
       ELSE /\ sockLock[n] = "none"
            /\ sendLock[n] = "none"
            /\ ANNOUCE_SOCKET' = [ANNOUCE_SOCKET EXCEPT ![n] = {"rec"}]
            /\ ANNOUCE_SEND_SOCKET' = [ANNOUCE_SEND_SOCKET EXCEPT ![n] = {"send"}]
            /\ Goto(n, "serve", "serve:67")
    /\ UNCHANGED <<CURRENT_NODE, MULTICAST_ADDR>>
    /\ UNCHANGED <<registry, sockLocks, locals, notes, client, nodeLock, segment>>

\* Lines 67-82: the identity check, MULTICAST_ADDR, the local fingerprint.
serve_setup(n) ==
    /\ pc[n]["serve"] = "serve:67"
    /\ nodeLock[n] = "none"
    /\ IF CURRENT_NODE[n] = {}
       THEN /\ Goto(n, "serve", "panic:68")
            /\ UNCHANGED <<MULTICAST_ADDR, fingerprint>>
       ELSE /\ MULTICAST_ADDR' = [MULTICAST_ADDR EXCEPT ![n] = {"group"}]
            /\ \E cur \in CURRENT_NODE[n] :
                  fingerprint' = [fingerprint EXCEPT ![n] = cur.fingerprint]
            /\ Goto(n, "serve", "serve:87")
    /\ UNCHANGED <<CURRENT_NODE, ANNOUCE_SOCKET, ANNOUCE_SEND_SOCKET>>
    /\ UNCHANGED <<registry, sockLocks, dgram, registered, ann, notes, client, nodeLock, segment>>

(***************************************************************************)
(* serve: the receive loop                                                 *)
(***************************************************************************)
\* ANNOUCE_SOCKET.lock().await.as_ref().unwrap(): the guard lives to the end
\* of the statement, so across recv_from; unwrap panics on None.
serve_lock(n) ==
    /\ pc[n]["serve"] = "serve:87"
    /\ sockLock[n] = "none"
    /\ IF ANNOUCE_SOCKET[n] = {}
       THEN /\ Goto(n, "serve", "panic:91")
            /\ UNCHANGED sockLock
       ELSE /\ sockLock' = [sockLock EXCEPT ![n] = "serve"]
            /\ Goto(n, "serve", "serve:92")
    /\ dgram' = [dgram EXCEPT ![n] = {}]
    /\ registered' = [registered EXCEPT ![n] = FALSE]
    /\ UNCHANGED <<statics, registry, sendLock, fingerprint, ann, notes, client, nodeLock, segment>>

\* Where serve goes with a decoded message (line 108).
is_self(nd, fp) == nd.fingerprint = fp

\* recv_from returns Ok: lines 100-109, up to the call of register.  Which
\* datagram it returns is the caller's: wire is left to it.
serve_recv(n, w, ip) ==
    /\ pc[n]["serve"] = "serve:92"
    /\ sockLock' = [sockLock EXCEPT ![n] = "none"]
    /\ dgram' = [dgram EXCEPT ![n] = {[bytes |-> w, addr |-> ip]}]
    /\ IF from_str(w) = {}
       THEN Goto(n, "serve", "panic:103")
       ELSE \E a \in from_str(w) :
              IF ~is_self(from_announce(a, ip), fingerprint[n])
              THEN Goto(n, "serve", "register:152")
              ELSE Goto(n, "serve", "serve:87")
    /\ UNCHANGED <<statics, registry, sendLock, fingerprint, registered, ann>>
    /\ UNCHANGED <<notes, client, nodeLock, calls>>

\* recv_from returns Err: the loop breaks and serve returns.
serve_recv_err(n) ==
    /\ pc[n]["serve"] = "serve:92"
    /\ sockLock' = [sockLock EXCEPT ![n] = "none"]
    /\ Goto(n, "serve", "returned")
    /\ UNCHANGED <<statics, registry, sendLock, locals, notes, client, nodeLock, segment>>

\* register, lines 146-154: the message of the identity, read under the
\* CURRENT_NODE lock, which the end of the statement of line 152 releases.
register_announce(n) ==
    /\ pc[n]["serve"] = "register:152"
    /\ nodeLock[n] = "none"
    /\ Goto(n, "serve", "register:155")
    /\ UNCHANGED <<protocol, registry, client>>

\* register: the POST returns, Ok or Err.
register(n, ok) ==
    /\ pc[n]["serve"] = "register:155"
    /\ registered' = [registered EXCEPT ![n] = ok]
    /\ Goto(n, "serve", "serve:110")
    /\ UNCHANGED <<statics, registry, sockLocks, fingerprint, dgram, ann>>
    /\ UNCHANGED <<notes, client, nodeLock, segment>>

\* Lines 110-117 without the test of line 111: add_node whatever register
\* returned.
serve_check_always_add(n) ==
    /\ pc[n]["serve"] = "serve:110"
    /\ mapLock[n] = "none"
    /\ IF ~contains_key(NODE_MAP[n], NodeOf(n).fingerprint)
       THEN Goto(n, "serve", "add_node:29")
       ELSE Goto(n, "serve", "serve:87")
    /\ UNCHANGED <<protocol, registry, client>>

\* Lines 110-117: the guard of the condition is dropped before the block.
serve_check(n) ==
    /\ pc[n]["serve"] = "serve:110"
    /\ mapLock[n] = "none"
    /\ IF ~contains_key(NODE_MAP[n], NodeOf(n).fingerprint)
       THEN IF registered[n]
            THEN Goto(n, "serve", "add_node:29")
            ELSE Goto(n, "serve", "serve:114")
       ELSE Goto(n, "serve", "serve:87")
    /\ UNCHANGED <<protocol, registry, client, nodeLock, segment>>

\* add_node(node).await of line 112.
serve_add_node(n) ==
    /\ \/ add_node_lock(n, "serve")
       \/ add_node_insert(n, "serve", NodeOf(n))
       \/ add_node_send(n, "serve")
    /\ UNCHANGED <<protocol, client, nodeLock, segment>>

(***************************************************************************)
(* announce, called by serve (line 114) and by discover (line 172)         *)
(***************************************************************************)
AnnounceCall(t) == IF t = "serve" THEN "serve:114" ELSE "discover:172"
AnnounceReturn(t) == IF t = "serve" THEN "serve:87" ELSE "idle"

\* for i in 0..repeat
in_range_inclusive(i, repeat) == i <= repeat

in_range(i, repeat) == i < repeat

\* announce is left, by return or by panic: its locals are dropped, and the
\* history of a discover ends with it.
Unwind(n, t) ==
    /\ ann' = [ann EXCEPT ![n][t] = NoBurst]
    /\ disco' = IF t = "disc" THEN [disco EXCEPT ![n] = NoDiscover] ELSE disco

\* let current_node = CURRENT_NODE.lock().await (line 176).
announce_lock_node(n, t) ==
    /\ pc[n][t] = AnnounceCall(t)
    /\ nodeLock[n] = "none"
    /\ nodeLock' = [nodeLock EXCEPT ![n] = t]
    /\ Goto(n, t, "announce:177")
    /\ UNCHANGED <<statics, registry, sockLocks, locals, notes, client, segment>>

\* drop(current_node) of lines 178 and 182, and the guard kept instead.
drop_forgotten(guard) == guard

drop(guard) == "none"

\* MULTICAST_ADDR.lock().await.unwrap() of line 184 panics on None; the
\* first definition is unwrap_or_default in its place.
unwrap_or_default(target) == TRUE

unwrap(target) == target # {}

\* Lines 177-190.
announce_start(n, t) ==
    /\ pc[n][t] = "announce:177"
    /\ nodeLock[n] = t
    /\ nodeLock' = [nodeLock EXCEPT ![n] = drop(@)]
    /\ IF CURRENT_NODE[n] = {}
       THEN Goto(n, t, "panic:179") /\ Unwind(n, t)
       ELSE IF ~unwrap(MULTICAST_ADDR[n])
       THEN Goto(n, t, "panic:184") /\ Unwind(n, t)
       ELSE /\ UNCHANGED disco
            /\ \E cur \in CURRENT_NODE[n] :
                 ann' = [ann EXCEPT ![n][t] =
                    [repeat |-> RepeatOf(t), i |-> 0,
                     msg |-> to_string(to_announce(cur)),
                     target |-> MULTICAST_ADDR[n], id |-> {cur},
                     sent |-> <<>>]]
            /\ Goto(n, t, "announce:193")
    /\ UNCHANGED <<statics, registry, sockLocks, fingerprint, dgram, registered>>
    /\ UNCHANGED <<stopDone, client, segment>>

\* send_to on the socket without its lock.
announce_lock_unguarded(n, t) ==
    /\ pc[n][t] = "announce:193"
    /\ in_range(ann[n][t].i, ann[n][t].repeat)
    /\ IF ANNOUCE_SEND_SOCKET[n] = {}
       THEN Goto(n, t, "panic:197") /\ Unwind(n, t) /\ UNCHANGED sendLock
       ELSE /\ sendLock' = [sendLock EXCEPT ![n] = t]
            /\ Goto(n, t, "announce:198")
            /\ UNCHANGED <<ann, disco>>
    /\ UNCHANGED <<statics, registry, sockLock, fingerprint, dgram, registered>>
    /\ UNCHANGED <<stopDone, client, nodeLock, segment>>

\* ANNOUCE_SEND_SOCKET.lock().await.as_ref().unwrap(): held across send_to.
announce_lock(n, t) ==
    /\ pc[n][t] = "announce:193"
    /\ in_range(ann[n][t].i, ann[n][t].repeat)
    /\ sendLock[n] = "none"
    /\ IF ANNOUCE_SEND_SOCKET[n] = {}
       THEN Goto(n, t, "panic:197") /\ Unwind(n, t) /\ UNCHANGED sendLock
       ELSE /\ sendLock' = [sendLock EXCEPT ![n] = t]
            /\ Goto(n, t, "announce:198")
            /\ UNCHANGED <<ann, disco>>
    /\ UNCHANGED <<statics, registry, sockLock, fingerprint, dgram, registered>>
    /\ UNCHANGED <<stopDone, client, nodeLock, segment>>

\* send_to returns Ok; then the sleep of line 202 and the next i.  Whom the
\* datagram reaches is the caller's: wire is left to it.
announce_send(n, t) ==
    /\ pc[n][t] = "announce:198"
    /\ sendLock' = [sendLock EXCEPT ![n] = "none"]
    /\ ann' = [ann EXCEPT ![n][t].i = @ + 1,
                          ![n][t].sent =
                              Append(@, [to |-> ann[n][t].target,
                                         bytes |-> ann[n][t].msg])]
    /\ Goto(n, t, "announce:193")
    /\ UNCHANGED <<statics, registry, sockLock, fingerprint, dgram, registered>>
    /\ UNCHANGED <<notes, client, nodeLock, calls>>

\* send_to returns Err: expect() panics.
announce_send_err(n, t) ==
    /\ pc[n][t] = "announce:198"
    /\ sendLock' = [sendLock EXCEPT ![n] = "none"]
    /\ Goto(n, t, "panic:200")
    /\ Unwind(n, t)
    /\ UNCHANGED <<statics, registry, sockLock, fingerprint, dgram, registered>>
    /\ UNCHANGED <<stopDone, client, nodeLock, segment>>

\* The range is exhausted: announce returns to its caller.
announce_return(n, t) ==
    /\ pc[n][t] = "announce:193"
    /\ ~in_range(ann[n][t].i, ann[n][t].repeat)
    /\ Goto(n, t, AnnounceReturn(t))
    /\ Unwind(n, t)
    /\ UNCHANGED <<statics, registry, sockLocks, fingerprint, dgram, registered>>
    /\ UNCHANGED <<stopDone, client, nodeLock, segment>>

(***************************************************************************)
(* discover                                                                *)
(***************************************************************************)
\* discover with its two statements exchanged: announce(5) comes first.
discover_announce_first == "discover:172"

\* The first statement of discover: clear_nodes().await.
discover_first == "clear_nodes:35"

DiscoverCall(n) ==
    /\ pc[n]["disc"] \in Ended
    /\ Goto(n, "disc", discover_first)
    /\ disco' = [disco EXCEPT ![n] = NoDiscover]
    /\ ann' = [ann EXCEPT ![n]["disc"] = NoBurst]
    /\ UNCHANGED <<statics, registry, sockLocks, fingerprint, dgram, registered>>
    /\ UNCHANGED <<stopDone, client, nodeLock, wire>>

\* clear_nodes().await of line 171.
discover_clear_nodes(n) ==
    /\ \/ /\ clear_nodes_lock(n, "disc")
          /\ UNCHANGED disco
       \/ /\ clear_nodes_clear(n, "disc")
          /\ UNCHANGED disco
       \/ /\ clear_nodes_send(n, "disc")
          /\ disco' = [disco EXCEPT
                ![n].cleared = TRUE,
                ![n].emptied = /\ NODE_MAP'[n] = EmptyMap
                               /\ NODE_CHANNEL'[n].value = EmptyMap]
    /\ UNCHANGED <<statics, sockLocks, locals, stopDone, client, nodeLock, segment>>

(***************************************************************************)
(* Specifications                                                          *)
(***************************************************************************)
InitOn(ns) ==
    /\ CURRENT_NODE = [n \in ns |-> {}]
    /\ MULTICAST_ADDR = [n \in ns |-> {}]
    /\ ANNOUCE_SOCKET = [n \in ns |-> {}]
    /\ ANNOUCE_SEND_SOCKET = [n \in ns |-> {}]
    /\ NODE_MAP = [n \in ns |-> EmptyMap]
    /\ NODE_CHANNEL = [n \in ns |-> channel]
    /\ mapLock = [n \in ns |-> "none"]
    /\ sockLock = [n \in ns |-> "none"]
    /\ sendLock = [n \in ns |-> "none"]
    /\ nodeLock = [n \in ns |-> "none"]
    /\ pc = [n \in ns |-> [t \in Tasks |-> "idle"]]
    /\ arg = [n \in ns |-> 0]
    /\ fingerprint = [n \in ns |-> 0]
    /\ dgram = [n \in ns |-> {}]
    /\ registered = [n \in ns |-> FALSE]
    /\ ann = [n \in ns |-> [t \in Callers |-> NoBurst]]
    /\ stopDone = [n \in ns |-> FALSE]
    /\ disco = [n \in ns |-> NoDiscover]
    /\ rx = [n \in ns |-> {}]
    /\ opLog = [n \in ns |-> <<>>]
    /\ sends = [n \in ns |-> 0]
    /\ items = [n \in ns |-> [at |-> 0, got |-> <<>>]]
    /\ wire = [n \in ns |-> {}]
    /\ calls = [n \in ns |-> 0]

\* One process, and callers of its registry functions.
InitRegistry == InitOn({1})

NextRegistry ==
    \/ \E n \in Running : ApiCall(n)
    \/ \E n \in Running : ApiLock(n)
    \/ \E n \in Running : ApiAdd(n)
    \/ \E n \in Running : ApiRemove(n)
    \/ \E n \in Running : ApiClear(n)
    \/ \E n \in Running : ApiSend(n)
    \/ \E n \in Running : get_node_listener(n)
    \/ \E n \in Running : RecvFirst(n)
    \/ \E n \in Running : RecvNext(n)

SpecRegistry == InitRegistry /\ [][NextRegistry]_vars

\* One process: its serve task, a caller of discover, a caller of stop, calls
\* of set_current_node, and peers whose datagrams reach the receive socket.
Init == InitOn({1})

Next ==
    \/ \E n \in Running, nd \in Identities : set_current_node(n, nd)
    \/ \E n \in Running : StopCall(n)
    \/ \E n \in Running : stop_take(n)
    \/ \E n \in Running : ServeCall(n)
    \/ \E n \in Running : serve_clear(n)
    \/ \E n \in Running : init_socket(n)
    \/ \E n \in Running : serve_setup(n)
    \/ \E n \in Running : serve_lock(n)
    \/ \E n \in Running, d \in Datagrams :
          serve_recv(n, d.bytes, d.addr) /\ UNCHANGED wire
    \/ \E n \in Running : serve_recv_err(n)
    \/ \E n \in Running : register_announce(n)
    \/ \E n \in Running, ok \in BOOLEAN : register(n, ok)
    \/ \E n \in Running : serve_check(n)
    \/ \E n \in Running : serve_add_node(n)
    \/ \E n \in Running, t \in Callers : announce_lock_node(n, t)
    \/ \E n \in Running, t \in Callers : announce_start(n, t)
    \/ \E n \in Running, t \in Callers : announce_lock(n, t)
    \/ \E n \in Running, t \in Callers :
          announce_send(n, t) /\ UNCHANGED wire
    \/ \E n \in Running, t \in Callers : announce_send_err(n, t)
    \/ \E n \in Running, t \in Callers : announce_return(n, t)
    \/ \E n \in Running : DiscoverCall(n) /\ UNCHANGED calls
    \/ \E n \in Running : discover_clear_nodes(n)

Spec == Init /\ [][Next]_vars

(***************************************************************************)
(* A process whose serve is in its loop                                    *)
(***************************************************************************)
\* The identity of the process on host n.
Host(n) == Node(n, AddrOf(n))

\* The processes ns after set_current_node(Host(n)) and serve(..) up to the
\* top of the loop (line 86): sockets bound, target resolved, fingerprint read.
InitListening(ns) ==
    /\ CURRENT_NODE = [n \in ns |-> {Host(n)}]
    /\ MULTICAST_ADDR = [n \in ns |-> {"group"}]
    /\ ANNOUCE_SOCKET = [n \in ns |-> {"rec"}]
    /\ ANNOUCE_SEND_SOCKET = [n \in ns |-> {"send"}]
    /\ NODE_MAP = [n \in ns |-> EmptyMap]
    /\ NODE_CHANNEL = [n \in ns |-> channel]
    /\ mapLock = [n \in ns |-> "none"]
    /\ sockLock = [n \in ns |-> "none"]
    /\ sendLock = [n \in ns |-> "none"]
    /\ nodeLock = [n \in ns |-> "none"]
    /\ pc = [n \in ns |->
               [t \in Tasks |-> IF t = "serve" THEN "serve:87" ELSE "idle"]]
    /\ arg = [n \in ns |-> 0]
    /\ fingerprint = [n \in ns |-> Host(n).fingerprint]
    /\ dgram = [n \in ns |-> {}]
    /\ registered = [n \in ns |-> FALSE]
    /\ ann = [n \in ns |-> [t \in Callers |-> NoBurst]]
    /\ stopDone = [n \in ns |-> FALSE]
    /\ disco = [n \in ns |-> NoDiscover]
    /\ rx = [n \in ns |-> {}]
    /\ opLog = [n \in ns |-> <<>>]
    /\ sends = [n \in ns |-> 0]
    /\ items = [n \in ns |-> [at |-> 0, got |-> <<>>]]
    /\ wire = [n \in ns |-> {}]
    /\ calls = [n \in ns |-> 0]

(***************************************************************************)
(* One listening process, its loop's announce and discover's               *)
(***************************************************************************)
InitBursts == InitListening({1})

NextBursts ==
    \/ \E n \in Running : serve_lock(n)
    \/ \E n \in Running, d \in Datagrams :
          serve_recv(n, d.bytes, d.addr) /\ UNCHANGED wire
    \/ \E n \in Running : register_announce(n)
    \/ \E n \in Running, ok \in BOOLEAN : register(n, ok)
    \/ \E n \in Running : serve_check(n)
    \/ \E n \in Running : serve_add_node(n)
    \/ \E n \in Running, t \in Callers : announce_lock_node(n, t)
    \/ \E n \in Running, t \in Callers : announce_start(n, t)
    \/ \E n \in Running, t \in Callers : announce_lock(n, t)
    \/ \E n \in Running, t \in Callers :
          announce_send(n, t) /\ UNCHANGED wire
    \/ \E n \in Running, t \in Callers : announce_send_err(n, t)
    \/ \E n \in Running, t \in Callers : announce_return(n, t)
    \/ \E n \in Running : DiscoverCall(n) /\ UNCHANGED calls
    \/ \E n \in Running : discover_clear_nodes(n)

\* The runtime polls a task that can go on; a tokio Mutex serves its waiters
\* in turn (strong fairness of the two lock steps); send_to ends, one way or
\* the other.
FairBursts ==
    /\ InitBursts
    /\ [][NextBursts]_vars
    /\ \A t \in Callers :
          /\ SF_vars(announce_lock_node(1, t))
          /\ WF_vars(announce_start(1, t))
          /\ SF_vars(announce_lock(1, t))
          /\ WF_vars((announce_send(1, t) /\ UNCHANGED wire)
                         \/ announce_send_err(1, t))
          /\ WF_vars(announce_return(1, t))

(***************************************************************************)
(* Several processes on one segment                                        *)
(***************************************************************************)
\* What recv_from of another process returns for a datagram of task t of n:
\* the bytes sent, and the address of the host of n.
Delivered(n, t) == [bytes |-> ann[n][t].msg, addr |-> AddrOf(n)]

\* send_to(buf, target) returns Ok: the datagram reaches the receive sockets
\* of some of the processes within reach (multicast UDP may lose it; one that
\* is already waiting at a socket is not kept twice).
NetSend(n, t, reach) ==
    /\ announce_send(n, t)
    /\ \E got \in SUBSET reach :
          wire' = [m \in DOMAIN wire |->
                      IF m \in got THEN wire[m] \cup {Delivered(n, t)}
                      ELSE wire[m]]

\* recv_from returns one of the datagrams waiting at the socket of n.
NetRecv(n) ==
    \E d \in wire[n] :
        /\ serve_recv(n, d.bytes, d.addr)
        /\ wire' = [wire EXCEPT ![n] = @ \ {d}]

\* discover() is called on n, at most MaxDiscovers times.
NetDiscover(n) ==
    /\ calls[n] < MaxDiscovers
    /\ DiscoverCall(n)
    /\ calls' = [calls EXCEPT ![n] = @ + 1]

\* Three processes A = 1, B = 2, C = 3 in their loops: A's datagrams reach B
\* only, B's reach C only, C's reach nobody; discover() is called on A.
ChainReach(n) ==
    CASE n = 1 -> {2}
      [] n = 2 -> {3}
      [] OTHER -> {}

InitChain == InitListening({1, 2, 3})

NextChain ==
    \/ \E n \in {1} : NetDiscover(n)
    \/ \E n \in Running : discover_clear_nodes(n)
    \/ \E n \in Running : serve_lock(n)
    \/ \E n \in Running : NetRecv(n)
    \/ \E n \in Running : register_announce(n)
    \/ \E n \in Running, ok \in BOOLEAN : register(n, ok)
    \/ \E n \in Running : serve_check(n)
    \/ \E n \in Running : serve_add_node(n)
    \/ \E n \in Running, t \in Callers : announce_lock_node(n, t)
    \/ \E n \in Running, t \in Callers : announce_start(n, t)
    \/ \E n \in Running, t \in Callers : announce_lock(n, t)
    \/ \E n \in Running, t \in Callers : NetSend(n, t, ChainReach(n))
    \/ \E n \in Running, t \in Callers : announce_send_err(n, t)
    \/ \E n \in Running, t \in Callers : announce_return(n, t)

SpecChain == InitChain /\ [][NextChain]_vars

\* Two processes in their loops that hear each other and themselves;
\* discover() is called on the first.
PairReach(n) == {1, 2}

InitPair == InitListening({1, 2})

NextPair ==
    \/ \E n \in {1} : NetDiscover(n)
    \/ \E n \in Running : discover_clear_nodes(n)
    \/ \E n \in Running : serve_lock(n)
    \/ \E n \in Running : NetRecv(n)
    \/ \E n \in Running : register_announce(n)
    \/ \E n \in Running, ok \in BOOLEAN : register(n, ok)
    \/ \E n \in Running : serve_check(n)
    \/ \E n \in Running : serve_add_node(n)
    \/ \E n \in Running, t \in Callers : announce_lock_node(n, t)
    \/ \E n \in Running, t \in Callers : announce_start(n, t)
    \/ \E n \in Running, t \in Callers : announce_lock(n, t)
    \/ \E n \in Running, t \in Callers : NetSend(n, t, PairReach(n))
    \/ \E n \in Running, t \in Callers : announce_return(n, t)

\* Every task that can go on does (the runtime polls it, the Mutexes serve
\* their waiters in turn, a POST and a send_to end); calls of discover() and
\* the outcomes of the POSTs are the environment's.
FairPair ==
    /\ InitPair
    /\ [][NextPair]_vars
    /\ \A n \in {1, 2} :
          /\ WF_vars(discover_clear_nodes(n))
          /\ WF_vars(serve_lock(n))
          /\ WF_vars(NetRecv(n))
          /\ WF_vars(register_announce(n))
          /\ WF_vars(\E ok \in BOOLEAN : register(n, ok))
          /\ WF_vars(serve_check(n))
          /\ WF_vars(serve_add_node(n))
          /\ \A t \in Callers :
                /\ SF_vars(announce_lock_node(n, t))
                /\ WF_vars(announce_start(n, t))
                /\ SF_vars(announce_lock(n, t))
                /\ WF_vars(NetSend(n, t, PairReach(n)))
                /\ WF_vars(announce_return(n, t))

(***************************************************************************)
(* Registry: the reference map and the claims on it                        *)
(***************************************************************************)
\* A plain fingerprint -> record map, kept as a set of <<key, value>> pairs.
RefApply(ps, op) ==
    CASE op.call = "add" ->
            {p \in ps : p[1] # op.node.fingerprint}
                \cup {<<op.node.fingerprint, op.node>>}
      [] op.call = "remove" -> {p \in ps : p[1] # op.fingerprint}
      [] OTHER -> {}

RECURSIVE RefAll(_)
RefAll(log) ==
    IF log = <<>> THEN {}
    ELSE RefApply(RefAll(SubSeq(log, 1, Len(log) - 1)), log[Len(log)])

RefGet(ps, f) == {p[2] : p \in {q \in ps : q[1] = f}}

AsPairs(m) == {<<k, m[k]>> : k \in DOMAIN m}

\* C1: with the registry lock free, get_nodes() is the map obtained by applying
\* the add_node, remove_node and clear_nodes calls made so far, in order, to a
\* plain map (add upserts by fingerprint, remove deletes if present, clear
\* empties), and get_node(f) is that map's entry for f, or None.
C1_RegistryMatchesPlainMap ==
    \A n \in Running :
        mapLock[n] = "none" =>
            /\ AsPairs(get_nodes(n)) = RefAll(opLog[n])
            /\ \A f \in Fingerprints :
                  get_node(n, f) = RefGet(RefAll(opLog[n]), f)

\* C1's case: a record replaced by a later add of its fingerprint, then a
\* remove of an absent fingerprint.
C1_Witness ==
    \E n \in Running :
        /\ pc[n]["api"] = "idle"
        /\ opLog[n] = << [call |-> "add", node |-> Node(1, 1)],
                         [call |-> "add", node |-> Node(1, 2)],
                         [call |-> "remove", fingerprint |-> 2] >>
        /\ get_node(n, 1) = {Node(1, 2)}
        /\ get_node(n, 2) = {}

\* The snapshot published by the k-th registry call of the api task.
SnapshotOf(n, k) == RefAll(SubSeq(opLog[n], 1, k))

\* C3 as claimed: the first item a subscriber is yielded is the snapshot that
\* was current when it attached, and its k-th later item is the snapshot of the
\* k-th mutation after that: none skipped, none merged.
C3_OneItemPerMutation ==
    \A n \in Running :
        \A k \in 1..Len(items[n].got) :
            /\ items[n].got[k].idx = items[n].at + k - 1
            /\ AsPairs(items[n].got[k].value) = SnapshotOf(n, items[n].got[k].idx)

\* C3 amended: every item is a snapshot published at or after the attachment,
\* each item was published after the one before it (mutation order; snapshots
\* published between two reads are skipped), and a subscriber that has read and
\* has no change pending holds the latest published snapshot.
C3_ItemsAreLatestInOrder ==
    \A n \in Running :
        LET got == items[n].got IN
        /\ \A k \in 1..Len(got) :
              /\ items[n].at <= got[k].idx
              /\ got[k].idx <= sends[n]
              /\ k > 1 => got[k - 1].idx < got[k].idx
              /\ AsPairs(got[k].value) = SnapshotOf(n, got[k].idx)
        /\ (got # <<>> /\ ~has_changed(NODE_CHANNEL[n])) =>
              got[Len(got)].idx = sends[n]

\* C3's case: a subscriber that attached before any mutation, read the empty
\* snapshot, and was next yielded the second mutation's snapshot.
C3_Witness ==
    \E n \in Running :
        /\ Len(items[n].got) = 2
        /\ items[n].at = 0
        /\ items[n].got[1].idx = 0
        /\ items[n].got[2].idx = 2
        /\ items[n].got[2].value # items[n].got[1].value

(***************************************************************************)
(* Change stream and serve's start                                         *)
(***************************************************************************)
\* C2: every mutation of the registry, the clear at the start of serve
\* included, publishes the resulting snapshot before the registry lock is
\* released: whenever no task holds the lock, the latest snapshot on the change
\* stream is the registry's content.
C2_SnapshotIsRegistry ==
    \A n \in Running :
        mapLock[n] = "none" => NODE_CHANNEL[n].value = NODE_MAP[n]

(***************************************************************************)
(* The receive loop                                                        *)
(***************************************************************************)
\* recv_from has returned a datagram that decodes to a message.
Decoded(n) == dgram[n] # {} /\ \A d \in dgram[n] : from_str(d.bytes) # {}

\* The step in which serve's recv_from of node n returns a datagram.
Received(n) == pc[n]["serve"] = "serve:92" /\ dgram'[n] # {}

\* C4: a received datagram whose fingerprint is that of the local identity
\* (CURRENT_NODE) causes no registration call, no change of the registry or of
\* the change stream and no announce: serve goes on to its next receive.
C4_SelfSuppression ==
    [][\A n \in Running :
         (/\ Received(n)
          /\ Decoded(n)'
          /\ \E cur \in CURRENT_NODE[n] :
                NodeOf(n)'.fingerprint = cur.fingerprint)
         => /\ pc'[n]["serve"] = "serve:87"
            /\ UNCHANGED <<NODE_MAP, NODE_CHANNEL, ann>>]_vars

\* C5: a received announce whose fingerprint is already a key of the registry
\* causes no registration call and no announce, and leaves the registry as it
\* is: serve goes on to its next receive.
C5_DuplicateSuppression ==
    [][\A n \in Running :
         (/\ Received(n)
          /\ Decoded(n)'
          /\ contains_key(NODE_MAP[n], NodeOf(n)'.fingerprint))
         => /\ pc'[n]["serve"] = "serve:87"
            /\ UNCHANGED <<NODE_MAP, NODE_CHANNEL, ann>>]_vars

\* C6: a received datagram that does not decode leaves serve in its loop, at
\* its next receive, and the registry as it is.
C6_MalformedKeepsListening ==
    [][\A n \in Running :
         (Received(n) /\ ~Decoded(n)')
         => /\ pc'[n]["serve"] = "serve:87"
            /\ UNCHANGED <<NODE_MAP, NODE_CHANNEL>>]_vars

\* C7: once stop() has returned while serve was in its loop, the loop is left
\* only through the receive-error branch (serve returns): serve does not end
\* by a panic.
C7_StopEndsLoopByRecvError ==
    \A n \in Running :
        (stopDone[n] /\ pc[n]["serve"] \in Ended) => pc[n]["serve"] = "returned"

\* C8: stop() does not wait for the loop: while a call of stop() is pending, the
\* lock it needs is not held by a serve suspended in recv_from (which gives it
\* up only when a datagram or an error arrives).
C8_StopNeverWaitsForReceive ==
    \A n \in Running :
        pc[n]["stop"] = "stop:25" => sockLock[n] # "serve"

(***************************************************************************)
(* announce and discover                                                   *)
(***************************************************************************)
\* The datagram carrying the announce message of identity id to the group.
AnnounceOf(id) == [to |-> {"group"}, bytes |-> to_string(to_announce(id))]

\* C9: every datagram a call of announce sends goes to the resolved multicast
\* target and carries the message of the identity read when the call started;
\* a call that returns (no send failed) has sent exactly repeat datagrams: 1
\* from the loop, 5 from discover.
C9_AnnounceSendsExactlyN ==
    [][\A n \in Running : \A t \in Callers :
         LET a == ann[n][t] IN
         /\ (pc[n][t] = "announce:198" /\ pc'[n][t] = "announce:193") =>
               /\ Len(ann'[n][t].sent) = Len(a.sent) + 1
               /\ \A k \in 1..Len(ann'[n][t].sent) :
                     \A id \in a.id : ann'[n][t].sent[k] = AnnounceOf(id)
         /\ (pc[n][t] = "announce:193" /\ pc'[n][t] = AnnounceReturn(t)) =>
               /\ Len(a.sent) = a.repeat
               /\ a.repeat = IF t = "disc" THEN 5 ELSE 1]_vars

\* C9's case: discover's burst has sent its 5 datagrams, all with the identity
\* it read at its start, which set_current_node has replaced since.
C9_Witness ==
    \E n \in Running :
        /\ pc[n]["disc"] = "announce:193"
        /\ Len(ann[n]["disc"].sent) = 5
        /\ ann[n]["disc"].i = 5
        /\ CURRENT_NODE[n] # ann[n]["disc"].id
        /\ \A k \in 1..5 : \A id \in ann[n]["disc"].id :
              ann[n]["disc"].sent[k] = AnnounceOf(id)

\* C10: discover sends only after its clear_nodes() has returned, and when
\* that returned the registry and the published snapshot were empty; its burst
\* is of at most 5 datagrams.
C10_DiscoverClearsThenAnnounces ==
    \A n \in Running :
        (pc[n]["disc"] \in {"discover:172", "announce:193", "announce:198"}
            \/ ann[n]["disc"].sent # <<>>)
        => /\ disco[n].cleared
           /\ disco[n].emptied
           /\ Len(ann[n]["disc"].sent) <= 5

\* C10's case: discover, called on a registry of 3 peers, has emptied it and has
\* not yet published or sent: the snapshot of the 3 peers is still the latest.
C10_Witness ==
    \E n \in Running :
        /\ pc[n]["disc"] = "clear_nodes:37"
        /\ NODE_MAP[n] = EmptyMap
        /\ Cardinality(DOMAIN NODE_CHANNEL[n].value) = 3
        /\ ann[n]["disc"].sent = <<>>

(***************************************************************************)
(* Preconditions of serve and announce                                     *)
(***************************************************************************)
\* C11: with the identity unset, serve panics at its check and does not enter
\* its loop; with the identity unset or the multicast target unresolved,
\* announce (called by the loop or by discover) panics having sent nothing; so
\* a datagram is sent only with both set, and to the resolved target.
C11_UnsetIdentityIsFatal ==
    [][\A n \in Running :
         /\ (/\ pc[n]["serve"] = "serve:67"
             /\ pc'[n]["serve"] # "serve:67"
             /\ CURRENT_NODE[n] = {})
            => pc'[n]["serve"] = "panic:68"
         /\ \A t \in Callers :
              /\ (/\ pc[n][t] = "announce:177"
                  /\ pc'[n][t] # "announce:177"
                  /\ (CURRENT_NODE[n] = {} \/ MULTICAST_ADDR[n] = {}))
                 => /\ pc'[n][t] \in {"panic:179", "panic:184"}
                    /\ ann'[n][t].sent = <<>>
              /\ Len(ann'[n][t].sent) > Len(ann[n][t].sent)
                 => /\ CURRENT_NODE[n] # {}
                    /\ MULTICAST_ADDR[n] # {}
                    /\ ann'[n][t].sent[Len(ann'[n][t].sent)].to = {"group"}]_vars

\* C11's case: serve was called with the identity unset and panicked at line
\* 68, with both sockets bound; then the identity was set and discover called,
\* whose announce panicked on the unresolved target with nothing sent.
C11_Witness ==
    \E n \in Running :
        /\ pc[n]["serve"] = "panic:68"
        /\ pc[n]["disc"] = "panic:184"
        /\ CURRENT_NODE[n] # {}
        /\ MULTICAST_ADDR[n] = {}
        /\ ANNOUCE_SEND_SOCKET[n] # {}
        /\ ann[n]["disc"].sent = <<>>

(***************************************************************************)
(* The loop's handling of a new peer                                       *)
(***************************************************************************)
\* The record of the sender of the datagram in hand: the fingerprint of the
\* message, the address the datagram came from.
Observed(n) ==
    LET d == CHOOSE x \in dgram[n] : TRUE
        a == CHOOSE x \in from_str(d.bytes) : TRUE
    IN  [fingerprint |-> a.fingerprint, address |-> d.addr]

\* A step of the serve task of n.
ServeStep(n) == pc'[n]["serve"] # pc[n]["serve"]

\* C13: for a datagram that passed the self test, with a fingerprint not in
\* the registry and a callback that succeeded, the loop adds the record with
\* the observed address (published with the registry), then sends exactly one
\* announce datagram, and only then starts its next receive.
C13_AddThenAnnounceOnce ==
    [][\A n \in Running :
         /\ (/\ pc[n]["serve"] = "serve:110"
             /\ ServeStep(n)
             /\ registered[n]
             /\ ~contains_key(NODE_MAP[n], Observed(n).fingerprint))
            => pc'[n]["serve"] = "add_node:29"
         /\ (pc[n]["serve"] = "add_node:31" /\ ServeStep(n))
            => /\ pc'[n]["serve"] = "serve:114"
               /\ get(NODE_MAP'[n], Observed(n).fingerprint) = {Observed(n)}
               /\ NODE_CHANNEL'[n].value = NODE_MAP'[n]
         /\ (pc[n]["serve"] = "serve:114" /\ ServeStep(n))
            => pc'[n]["serve"] = "announce:177"
         /\ (pc[n]["serve"] = "announce:193" /\ pc'[n]["serve"] = "serve:87")
            => /\ Len(ann[n]["serve"].sent) = 1
               /\ \A id \in ann[n]["serve"].id :
                     ann[n]["serve"].sent[1] = AnnounceOf(id)
         /\ pc'[n]["serve"] = "serve:92"
            => pc[n]["serve"] \in {"serve:87", "serve:92"}]_vars

\* C13's case: the record of the datagram in hand is in the registry, and the
\* one announce datagram that follows the add has been sent.
C13_Witness ==
    \E n \in Running :
        /\ pc[n]["serve"] = "announce:193"
        /\ registered[n]
        /\ Len(ann[n]["serve"].sent) = 1
        /\ get(NODE_MAP[n], Observed(n).fingerprint) = {Observed(n)}
        /\ NODE_CHANNEL[n].value = NODE_MAP[n]

\* C14: in its loop, serve changes the registry or the change stream only by
\* adding the sender of a datagram whose callback succeeded: after a failed
\* callback no step of serve touches either.
C14_AddOnlyAfterCallback ==
    [][\A n \in Running :
         (/\ Listening(n)
          /\ ServeStep(n)
          /\ (NODE_MAP'[n] # NODE_MAP[n] \/ NODE_CHANNEL'[n] # NODE_CHANNEL[n]))
         => /\ registered[n]
            /\ DOMAIN NODE_MAP'[n] \subseteq
                  DOMAIN NODE_MAP[n] \cup {Observed(n).fingerprint}]_vars

\* C14's case: the callback for an unknown peer has failed and the loop is past
\* its add: the peer is neither in the registry nor in the latest snapshot.
C14_Witness ==
    \E n \in Running :
        /\ pc[n]["serve"] = "serve:114"
        /\ ~registered[n]
        /\ Decoded(n)
        /\ ~contains_key(NODE_MAP[n], Observed(n).fingerprint)
        /\ ~contains_key(NODE_CHANNEL[n].value, Observed(n).fingerprint)

\* C15: the loop sends an announce datagram only for a peer whose callback
\* succeeded: a datagram sent by announce called from the loop implies that
\* register returned true for the datagram in hand.
C15_FailedCallbackIsSilent ==
    \A n \in Running :
        ann[n]["serve"].sent # <<>> => registered[n]

(***************************************************************************)
(* Locks and network operations                                            *)
(***************************************************************************)
\* C16: a task inside the POST of register or inside send_to of announce holds
\* neither the NODE_MAP lock nor the CURRENT_NODE lock.
C16_NoRegistryLockDuringIO ==
    \A n \in Running : \A t \in Tasks :
        pc[n][t] \in {"register:155", "announce:198"}
        => mapLock[n] # t /\ nodeLock[n] # t

\* C16's case: serve is inside the POST while discover is inside send_to, and
\* both locks are free.
C16_Witness ==
    \E n \in Running :
        /\ pc[n]["serve"] = "register:155"
        /\ pc[n]["disc"] = "announce:198"
        /\ mapLock[n] = "none"
        /\ nodeLock[n] = "none"

(***************************************************************************)
(* Restart, and the identity replaced under a running loop                 *)
(***************************************************************************)
\* C19: a serve called after an earlier serve has been in its loop
\* (MULTICAST_ADDR is set) and stop() has released the receive socket binds
\* both sockets: init_socket returns to serve.
C19_RestartBinds ==
    [][\A n \in Running :
         (/\ pc[n]["serve"] = "init_socket:125"
          /\ ServeStep(n)
          /\ MULTICAST_ADDR[n] # {}
          /\ ANNOUCE_SOCKET[n] = {})
         => pc'[n]["serve"] = "serve:67"]_vars

\* C20: the loop calls register for no datagram that carries the fingerprint
\* the identity has at that moment, and adds no entry under the fingerprint the
\* identity has at that moment.
C20_NeverRegistersCurrentSelf ==
    [][\A n \in Running : \A cur \in CURRENT_NODE[n] :
         /\ (pc[n]["serve"] = "serve:92" /\ pc'[n]["serve"] = "register:152")
            => Observed(n)'.fingerprint # cur.fingerprint
         /\ (pc[n]["serve"] = "add_node:30" /\ pc'[n]["serve"] = "add_node:31")
            => Observed(n).fingerprint # cur.fingerprint]_vars

(***************************************************************************)
(* Two announce calls at once                                              *)
(***************************************************************************)
\* Task t of n is inside announce.
InBurst(n, t) == pc[n][t] \in {"announce:177", "announce:193", "announce:198"}

\* C17: with the loop's announce(1) and discover's announce(5) running at
\* once, a task inside send_to holds the send socket's lock (so at most one
\* is inside), a call that returns has sent exactly its own repeat datagrams,
\* each the whole message of the identity it read, and every call ends.
C17_ConcurrentBursts ==
    /\ [](\A n \in Running :
            /\ \A t \in Callers : pc[n][t] = "announce:198" => sendLock[n] = t
            /\ Cardinality({t \in Callers : pc[n][t] = "announce:198"}) <= 1)
    /\ [][\A n \in Running : \A t \in Callers :
            (pc[n][t] = "announce:193" /\ pc'[n][t] = AnnounceReturn(t))
            => /\ Len(ann[n][t].sent) = RepeatOf(t)
               /\ \A k \in 1..Len(ann[n][t].sent) : \A id \in ann[n][t].id :
                     ann[n][t].sent[k] = AnnounceOf(id)]_vars
    /\ \A t \in Callers : InBurst(1, t) ~> ~InBurst(1, t)

\* C17's case: the loop's call has sent its one datagram and has not returned
\* while discover's call, two datagrams sent, is inside its third send_to.
C17_Witness ==
    \E n \in Running :
        /\ pc[n]["disc"] = "announce:198"
        /\ Len(ann[n]["disc"].sent) = 2
        /\ pc[n]["serve"] = "announce:193"
        /\ Len(ann[n]["serve"].sent) = 1

(***************************************************************************)
(* Three processes: who learns whom                                        *)
(***************************************************************************)
\* C has taken B's announce through a callback that succeeded and add_node,
\* and B has A in its registry.
ChainDone ==
    /\ contains_key(NODE_MAP[2], 1)
    /\ pc[3]["serve"] = "serve:114"
    /\ registered[3]

\* C12 as claimed: once B has added A and re-announced, and C has taken that
\* re-announce (and no datagram of A) through a successful callback, C's
\* registry has an entry for A's fingerprint.
C12_ThirdLearnsFirst ==
    ChainDone => contains_key(NODE_MAP[3], 1)

\* C12 amended: B's re-announce carries B's identity.  C, which hears B only,
\* never has an entry for A's fingerprint; once it has taken B's re-announce
\* through a successful callback its registry is exactly B's record at B's
\* address; B's registry holds nothing but A's record at A's address.
C12_ThirdLearnsSecond ==
    /\ ~contains_key(NODE_MAP[3], 1)
    /\ DOMAIN NODE_MAP[3] \subseteq {2}
    /\ DOMAIN NODE_MAP[2] \subseteq {1}
    /\ contains_key(NODE_MAP[2], 1) => NODE_MAP[2][1] = Host(1)
    /\ (pc[3]["serve"] = "serve:114" /\ registered[3])
       => /\ DOMAIN NODE_MAP[3] = {2}
          /\ NODE_MAP[3][2] = Host(2)
          /\ NODE_CHANNEL[3].value = NODE_MAP[3]

\* C12's case: A's burst is over, B has A, C has B, every datagram has been
\* received and every loop is back at its receive.
C12_Witness ==
    /\ calls[1] = 1
    /\ pc[1]["disc"] = "idle"
    /\ NODE_MAP[2] = [k \in {1} |-> Host(1)]
    /\ NODE_MAP[3] = [k \in {2} |-> Host(2)]
    /\ \A n \in Running : wire[n] = {} /\ pc[n]["serve"] \in {"serve:87", "serve:92"}

(***************************************************************************)
(* Two processes: announces answered by announces                          *)
(***************************************************************************)
\* No datagram waits at a socket, no discover() runs, every loop is at its
\* receive or has ended.
Quiet ==
    \A n \in Running :
        /\ wire[n] = {}
        /\ pc[n]["disc"] \in Ended
        /\ pc[n]["serve"] \in {"serve:87", "serve:92"} \cup Ended

\* C18: after the calls of discover(), the processes come to rest for good:
\* from some point on no datagram is in flight and no announce is pending.
C18_Quiescence == <>[]Quiet

====
